---- MODULE Spec2Model ----
(***************************************************************************)
(* Model of the prediction engine of ai-service/app.py                     *)
(* (AdvancedBudgetPredictor): the spending row-set of                      *)
(* fetch_comprehensive_data, engineer_features, and the decision policy of *)
(* predict_with_ml.                                                        *)
(*                                                                         *)
(* Amounts are cents.  The code computes on Python floats; the model       *)
(* computes on exact rationals <<n, d>> (d > 0, lowest terms), and         *)
(* int(x) is truncation of the exact value.                                *)
(***************************************************************************)
EXTENDS Integers, Sequences, FiniteSets, TLC

VARIABLES
    pc,            \* position of the modelled call
    inp,           \* SpecPolicy: the inputs of the category being decided
    out,           \* SpecPolicy: the decision of predict_with_ml for inp
    cats,          \* Spec: per category inputs of the request, the model outputs
                   \*       and peer data filled in when the loop obtains them
    other_spending,\* Spec: the user has spending rows in categories without budget
    fit,           \* Spec: outcome of build_ml_models for the request
    in_clusters,   \* Spec: user_id in user_clusters
    idx,           \* Spec: number of categories already processed by the loop
    locals,        \* Spec: predicted_amount / model_used / confidence of the loop body
    predictions,   \* Spec: the predictions list built by the loop
    result,        \* Spec: what predict_with_ml returns
    failed,        \* Spec: categories whose processing raised
    stages,        \* Spec: the functions predict_with_ml has called so far
    rowsA,         \* SpecFeatures: one category's budget rows and spending
    rowsB,         \* SpecFeatures: the same rows with period P or a later one mutated
    periodP,       \* SpecFeatures: the period P the mutation respects
    fvA,           \* SpecFeatures: feature vectors of rowsA
    fvB,           \* SpecFeatures: feature vectors of rowsB
    txns,          \* SpecFetch: the user's expense transactions with their splits
    spending_df,   \* SpecFetch: the spending row-set returned by the query
    scaler,        \* SpecScaler: predictor.scaler, the one StandardScaler of the process
    calls,         \* SpecScaler: the predict_with_ml calls on the module-level predictor
    fn_in,         \* SpecFunctions: the function called and its arguments
    fn_out         \* SpecFunctions: what the function returned

vars == <<pc, inp, out, cats, other_spending, fit, in_clusters, idx, locals,
          predictions, result, failed, stages,
          rowsA, rowsB, periodP, fvA, fvB, txns, spending_df,
          scaler, calls, fn_in, fn_out>>

policyVars  == <<inp, out>>
requestVars == <<cats, other_spending, fit, in_clusters, idx, locals,
                 predictions, result, failed, stages>>
featureVars == <<rowsA, rowsB, periodP, fvA, fvB>>
fetchVars   == <<txns, spending_df>>
scalerVars  == <<scaler, calls>>
functionVars == <<fn_in, fn_out>>
auxVars     == <<scalerVars, functionVars>>

-----------------------------------------------------------------------------
(* Exact rational arithmetic.                                              *)

RECURSIVE GCD(_, _)
GCD(a, b) == IF b = 0 THEN a ELSE GCD(b, a % b)

AbsInt(a) == IF a < 0 THEN -a ELSE a

Frac(n, d) ==
    LET g == GCD(AbsInt(n), d)
    IN  IF n = 0 THEN <<0, 1>> ELSE <<n \div g, d \div g>>

Num(n) == <<n, 1>>

RAdd(x, y) == Frac(x[1] * y[2] + y[1] * x[2], x[2] * y[2])
RSub(x, y) == Frac(x[1] * y[2] - y[1] * x[2], x[2] * y[2])
RMul(x, y) == Frac(x[1] * y[1], x[2] * y[2])
RDiv(x, y) == IF y[1] > 0 THEN Frac(x[1] * y[2], x[2] * y[1])
                          ELSE Frac(-(x[1] * y[2]), x[2] * (-y[1]))
RLt(x, y)  == x[1] * y[2] < y[1] * x[2]
RLe(x, y)  == x[1] * y[2] <= y[1] * x[2]
RAbs(x)    == <<AbsInt(x[1]), x[2]>>
RMax(x, y) == IF RLt(x, y) THEN y ELSE x
RMin(x, y) == IF RLt(y, x) THEN y ELSE x

\* int(x) of Python: truncation toward zero
Trunc(x) == IF x[1] >= 0 THEN x[1] \div x[2] ELSE -((-x[1]) \div x[2])

RECURSIVE SumSeq(_)
SumSeq(s) == IF s = <<>> THEN 0 ELSE Head(s) + SumSeq(Tail(s))

RECURSIVE RSumSeq(_)
RSumSeq(s) == IF s = <<>> THEN Num(0) ELSE RAdd(Head(s), RSumSeq(Tail(s)))

\* np.mean / Series.mean of a non-empty sequence of integers
Mean(s) == Frac(SumSeq(s), Len(s))

MinSeq(s) == CHOOSE v \in {s[i] : i \in 1..Len(s)} : \A i \in 1..Len(s) : v <= s[i]
MaxSeq(s) == CHOOSE v \in {s[i] : i \in 1..Len(s)} : \A i \in 1..Len(s) : v >= s[i]

-----------------------------------------------------------------------------
(* engineer_features, for one category.                                    *)
(*                                                                         *)
(* A category's data is c = [planned, spent, extra]: planned[i] is the     *)
(* planned_cents of its i-th budget row in period_start order (periods of  *)
(* one category are distinct and do not overlap), spent[i] the sum of      *)
(* spent_cents of the spending rows dated within period i (0: no row,      *)
(* since every spending row has spent_cents > 0), and extra the spending   *)
(* of the category dated in none of its budget periods.                    *)

SelectPos(s) == SelectSeq(s, LAMBDA v : v > 0)

\* category_budgets[category_budgets['period_start'] < period_start]
historical_budgets(c, i) == SubSeq(c.planned, 1, i - 1)

\* spending per strictly earlier period, the periods without spending left out
historical_spent_values(c, i) == SelectPos(SubSeq(c.spent, 1, i - 1))

total_category_spending(c) == SumSeq(c.spent) + c.extra

\* the mutant: the relative error returned, the "1.0 -" forgotten
budget_accuracy_relative_error(planned_amount, actual_spent, total_spending) ==
    IF actual_spent > 0
    THEN Frac(AbsInt(planned_amount - actual_spent),
              IF planned_amount > actual_spent THEN planned_amount ELSE actual_spent)
    ELSE IF total_spending > 0 THEN Frac(7, 10) ELSE Frac(1, 2)

budget_accuracy(planned_amount, actual_spent, total_spending) ==
    IF actual_spent > 0
    THEN RSub(Num(1), Frac(AbsInt(planned_amount - actual_spent),
                           IF planned_amount > actual_spent
                           THEN planned_amount ELSE actual_spent))
    ELSE IF total_spending > 0
         THEN Frac(7, 10)
         ELSE Frac(1, 2)

\* the feature vector of period i of category c
FeatureVector(c, i) ==
    LET hb == historical_budgets(c, i)
        hs == historical_spent_values(c, i)
        first == Len(hb) = 0
    IN  [ target_amount          |-> c.planned[i],
          historical_mean        |-> IF first THEN Num(c.planned[i]) ELSE Mean(hb),
          historical_min         |-> IF first THEN c.planned[i] ELSE MinSeq(hb),
          historical_max         |-> IF first THEN c.planned[i] ELSE MaxSeq(hb),
          historical_count       |-> Len(hb),
          historical_spent_mean  |-> IF Len(hs) > 0 THEN Mean(hs) ELSE Num(0),
          historical_spent_count |-> Len(hs),
          actual_spent           |-> c.spent[i],
          budget_accuracy        |-> budget_accuracy(c.planned[i], c.spent[i],
                                                     total_category_spending(c)) ]

\* one feature vector per budget row, in period order
engineer_features(c) == [i \in 1..Len(c.planned) |-> FeatureVector(c, i)]

-----------------------------------------------------------------------------
(* predict_with_ml: what the loop body computes for one category.          *)
(*                                                                         *)
(* An input is x = [c, linear, forest, in_cluster, peer]: c the category's *)
(* data, linear and forest what models['linear'] and models['forest']      *)
(* give for the category ([state, v]: "absent" when the model is not in    *)
(* models, "fails" when predict raises, "nan" for a non-finite output,     *)
(* "value" with the output v otherwise), in_cluster whether                *)
(* user_id in user_clusters, and peer what get_peer_recommendations        *)
(* returns ([peer_samples, avg_peer_budget], peer_samples = 0 for {}).     *)

None == <<0, 0>>            \* a local variable holding None
NoLabel == "None"

data_points(x) == Len(x.c.planned)

\* category_data.iloc[-1]
latest_data(x) == FeatureVector(x.c, Len(x.c.planned))

\* the mutant: only the finiteness of the output tested
valid_prediction_finite_only(m) == m.state = "value"

\* np.isfinite(pred) and pred >= 0, the predict call not having raised
valid_prediction(m) == m.state = "value" /\ m.v >= 0

\* the mutant: negative outputs kept
predictions_dict_with_negative(x) ==
    (IF x.linear.state = "value" THEN <<x.linear.v>> ELSE <<>>) \o
    (IF x.forest.state = "value" THEN <<x.forest.v>> ELSE <<>>)

\* the values of predictions_dict, 'linear' first
predictions_dict(x) ==
    (IF valid_prediction(x.linear) THEN <<x.linear.v>> ELSE <<>>) \o
    (IF valid_prediction(x.forest) THEN <<x.forest.v>> ELSE <<>>)

budget_historical_avg(x)   == latest_data(x).historical_mean
spending_historical_avg(x) == latest_data(x).historical_spent_mean
historical_avg(x)          == budget_historical_avg(x)

ml_predicted_amount(x) ==
    IF predictions_dict(x) # <<>> THEN Mean(predictions_dict(x)) ELSE historical_avg(x)

\* pred_std / pred_mean of two outputs: |p1 - p2| / (p1 + p2)
model_agreement(x) ==
    LET p == predictions_dict(x)
    IN  IF Len(p) > 1
        THEN IF p[1] + p[2] > 0
             THEN RMax(Frac(3, 10), RSub(Num(1), Frac(AbsInt(p[1] - p[2]), p[1] + p[2])))
             ELSE Frac(1, 2)
        ELSE Frac(7, 10)

max_reasonable_change(x) == RMul(historical_avg(x), Frac(1, 2))

ml_change(x) ==
    IF predictions_dict(x) # <<>>
    THEN RAbs(RSub(ml_predicted_amount(x), historical_avg(x)))
    ELSE Num(0)

accuracy(x) == latest_data(x).budget_accuracy

base_confidence(x) ==
    LET v == 30 + data_points(x) * 8 IN Frac(IF v < 90 THEN v ELSE 90, 100)

accuracy_factor(x) ==
    IF RLt(Frac(7, 10), accuracy(x)) THEN Frac(12, 10)
    ELSE IF RLt(accuracy(x), Frac(3, 10)) THEN Frac(8, 10)
    ELSE Num(1)

\* spending_historical_avg / budget_historical_avg raises ZeroDivisionError
\* when the budget average is 0
RatioRaises(x) == budget_historical_avg(x)[1] = 0

spending_vs_budget_ratio(x) == RDiv(spending_historical_avg(x), budget_historical_avg(x))

\* the conditions of the if/elif chain, numbered as the branches of the policy
Guard(n, x) ==
    LET has == predictions_dict(x) # <<>>
    IN  CASE n = 1 -> data_points(x) < 3
          [] n = 2 -> RLt(accuracy(x), Frac(2, 10))
          [] n = 3 -> /\ has
                      /\ spending_historical_avg(x)[1] > 0
                      /\ ~RatioRaises(x)
                      /\ RLt(RAbs(RSub(spending_vs_budget_ratio(x), Num(1))), Frac(2, 100))
          [] n = 4 -> data_points(x) < 5 /\ x.in_cluster
          [] n = 5 -> has /\ accuracy(x) = Frac(1, 2)
          [] n = 6 -> has /\ RLt(Frac(1, 2), accuracy(x))
          [] n = 7 -> has /\ RLt(ml_change(x), RMul(historical_avg(x), Frac(2, 100)))
          [] n = 8 -> has
          [] n = 9 -> TRUE

\* evaluating the condition of branch 3 divides by the budget average
GuardRaises(n, x) ==
    /\ n = 3
    /\ predictions_dict(x) # <<>>
    /\ spending_historical_avg(x)[1] > 0
    /\ RatioRaises(x)

RECURSIVE FirstFrom(_, _, _)
FirstFrom(order, k, x) ==
    IF GuardRaises(order[k], x) THEN 0
    ELSE IF Guard(order[k], x) THEN order[k]
    ELSE FirstFrom(order, k + 1, x)

\* the mutant: the accurate-budgeter check moved to the end of the ML branches
BranchEntered_accurate_last(x) == FirstFrom(<<1, 2, 4, 5, 6, 7, 3, 8, 9>>, 1, x)

\* the branch of the if/elif chain that is entered (0: the chain raised)
BranchEntered(x) == FirstFrom(<<1, 2, 3, 4, 5, 6, 7, 8, 9>>, 1, x)

-----------------------------------------------------------------------------
(* The bodies of the branches.  Each gives the three local variables       *)
(* predicted_amount, model_used, confidence.                               *)

Locals(a, m, k) == [predicted_amount |-> a, model_used |-> m, confidence |-> k]

\* "Initialize prediction variables for this category"
InitPredictionVars == Locals(None, NoLabel, None)

Blend(a, wa, b, wb) == RAdd(RMul(a, Frac(wa, 100)), RMul(b, Frac(wb, 100)))

Conf3(x, k) == RMul(RMul(RMul(base_confidence(x), accuracy_factor(x)), model_agreement(x)),
                    Frac(k, 100))

InsufficientLabel(x) ==
    IF data_points(x) = 1 THEN "Historical Average (only 1 data points)"
    ELSE IF data_points(x) = 2 THEN "Historical Average (only 2 data points)"
    ELSE "Historical Average (only N data points)"

\* the mutant: the mean of all planned amounts taken for the historical average
Branch1_mean_of_all(x) == Locals(Mean(x.c.planned),
                                 InsufficientLabel(x),
                                 RMul(base_confidence(x), Frac(6, 10)))

Branch1(x) == Locals(historical_avg(x),
                     InsufficientLabel(x),
                     RMul(base_confidence(x), Frac(6, 10)))

Branch2(x) == Locals(historical_avg(x),
                     "Historical Average (very low accuracy)",
                     RMul(RMul(base_confidence(x), accuracy_factor(x)), Frac(7, 10)))

accurate_budgeter_amount(x) ==
    RMax(budget_historical_avg(x), RMul(spending_historical_avg(x), Frac(102, 100)))

Branch3(x) == Locals(accurate_budgeter_amount(x),
                     "Accurate Budgeter (spending  budget)",
                     Conf3(x, 92))

peer_sufficient(x) == x.peer.peer_samples > 0 /\ x.peer.peer_samples >= 3

peer_confidence(x) ==
    LET v == 40 + x.peer.peer_samples * 5 IN Frac(IF v < 80 THEN v ELSE 80, 100)

peer_weight(x) ==
    RMin(Frac(6, 10), Frac(x.peer.peer_samples, 10))

\* peer_budget is the AVG(planned_cents) of the query as psycopg2 returns
\* it; when that is a decimal.Decimal (AVG over an integer column),
\* "peer_budget * peer_weight" multiplies a Decimal by a float and raises
\* TypeError
PeerBlendRaises(x) ==
    /\ peer_sufficient(x)
    /\ historical_avg(x)[1] > 0
    /\ x.peer.avg_is_decimal

\* the labels carry the number of similar users, which the model leaves out
Branch4(x, l) ==
    IF peer_sufficient(x)
    THEN IF historical_avg(x)[1] > 0
         THEN Locals(RAdd(RMul(historical_avg(x), RSub(Num(1), peer_weight(x))),
                          RMul(Num(x.peer.avg_peer_budget), peer_weight(x))),
                     "Peer-Informed Prediction",
                     peer_confidence(x))
         ELSE Locals(Num(x.peer.avg_peer_budget),
                     "Peer-Based Recommendation",
                     peer_confidence(x))
    ELSE Locals(None, NoLabel, l.confidence)

Branch5(x) ==
    IF RLt(max_reasonable_change(x), ml_change(x))
    THEN Locals(Blend(historical_avg(x), 90, ml_predicted_amount(x), 10),
                "Conservative Historical (ML too extreme, neutral accuracy)",
                RMul(RMul(base_confidence(x), model_agreement(x)), Frac(7, 10)))
    ELSE Locals(Blend(historical_avg(x), 80, ml_predicted_amount(x), 20),
                "Conservative Ensemble (neutral accuracy)",
                RMul(RMul(base_confidence(x), model_agreement(x)), Frac(85, 100)))

\* the mutant: the high spender's blend taken on the budget average alone
Branch6_budget_base(x) ==
    LET b == budget_historical_avg(x)
        s == spending_historical_avg(x)
    IN  IF s[1] > 0 /\ RLt(RMul(b, Frac(105, 100)), s)
        THEN Locals(Blend(b, 70, ml_predicted_amount(x), 30),
                    "Spending-Informed Ensemble (spending > budget)",
                    Conf3(x, 85))
        ELSE IF RLt(max_reasonable_change(x), ml_change(x))
        THEN Locals(Blend(historical_avg(x), 95, ml_predicted_amount(x), 5),
                    "Conservative Historical (ML too extreme)",
                    Conf3(x, 85))
        ELSE Locals(Blend(historical_avg(x), 60, ml_predicted_amount(x), 40),
                    "Confident Ensemble (good accuracy)",
                    Conf3(x, 85))

Branch6(x) ==
    LET b == budget_historical_avg(x)
        s == spending_historical_avg(x)
    IN  IF s[1] > 0 /\ RLt(RMul(b, Frac(105, 100)), s)
        THEN Locals(Blend(RMax(b, RMul(s, Frac(95, 100))), 70, ml_predicted_amount(x), 30),
                    "Spending-Informed Ensemble (spending > budget)",
                    Conf3(x, 85))
        ELSE IF RLt(max_reasonable_change(x), ml_change(x))
        THEN Locals(Blend(historical_avg(x), 95, ml_predicted_amount(x), 5),
                    "Conservative Historical (ML too extreme)",
                    Conf3(x, 85))
        ELSE Locals(Blend(historical_avg(x), 60, ml_predicted_amount(x), 40),
                    "Confident Ensemble (good accuracy)",
                    Conf3(x, 85))

Branch7(x) == Locals(historical_avg(x),
                     "Historical Average (stable pattern)",
                     Conf3(x, 95))

\* reached with spending history only when the budget average is not 0:
\* the condition of branch 3 divides first
\* the mutant: the overspender's amount not capped at 110% of the spending
\* average
Branch8_uncapped(x) ==
    LET b == budget_historical_avg(x)
        s == spending_historical_avg(x)
    IN  IF s[1] > 0
        THEN IF RLt(Frac(105, 100), spending_vs_budget_ratio(x))
             THEN Locals(ml_predicted_amount(x),
                         "Spending-Aware Ensemble (tend to overspend)",
                         Conf3(x, 90))
             ELSE IF RLt(spending_vs_budget_ratio(x), Frac(95, 100))
             THEN Locals(Blend(b, 70, ml_predicted_amount(x), 30),
                         "Conservative Ensemble (good at budgeting)",
                         Conf3(x, 90))
             ELSE Locals(Blend(s, 80, ml_predicted_amount(x), 20),
                         "Balanced Ensemble (reasonable budgeter)",
                         Conf3(x, 90))
        ELSE Locals(Blend(b, 85, ml_predicted_amount(x), 15),
                    "Conservative Ensemble (no spending history)",
                    Conf3(x, 90))

Branch8(x) ==
    LET b == budget_historical_avg(x)
        s == spending_historical_avg(x)
    IN  IF s[1] > 0
        THEN IF RLt(Frac(105, 100), spending_vs_budget_ratio(x))
             THEN Locals(RMin(ml_predicted_amount(x), RMul(s, Frac(110, 100))),
                         "Spending-Aware Ensemble (tend to overspend)",
                         Conf3(x, 90))
             ELSE IF RLt(spending_vs_budget_ratio(x), Frac(95, 100))
             THEN Locals(Blend(b, 70, ml_predicted_amount(x), 30),
                         "Conservative Ensemble (good at budgeting)",
                         Conf3(x, 90))
             ELSE Locals(Blend(s, 80, ml_predicted_amount(x), 20),
                         "Balanced Ensemble (reasonable budgeter)",
                         Conf3(x, 90))
        ELSE Locals(Blend(b, 85, ml_predicted_amount(x), 15),
                    "Conservative Ensemble (no spending history)",
                    Conf3(x, 90))

\* the mutant: the latest period left out of the mean
statistical_fallback_prediction_prior(x) == historical_avg(x)

\* np.mean(category_data['target_amount'])
statistical_fallback_prediction(x) == Mean(x.c.planned)

Branch9(x) == Locals(statistical_fallback_prediction(x),
                     "Historical Average",
                     RMul(base_confidence(x), Frac(7, 10)))

\* the body of branch b, from the local variables l
StrategyOf(b, x, l) ==
    CASE b = 1 -> Branch1(x)
      [] b = 2 -> Branch2(x)
      [] b = 3 -> Branch3(x)
      [] b = 4 -> Branch4(x, l)
      [] b = 5 -> Branch5(x)
      [] b = 6 -> Branch6(x)
      [] b = 7 -> Branch7(x)
      [] b = 8 -> Branch8(x)
      [] b = 9 -> Branch9(x)

\* the mutant: no safety check after the chain
SafetyNet_absent(x, l) == l

\* "Safety check: ensure predicted_amount and model_used are always set"
SafetyNet(x, l) ==
    IF l.predicted_amount = None \/ l.model_used = NoLabel
    THEN Locals(historical_avg(x),
                "Fallback Historical Average",
                RMul(base_confidence(x), Frac(6, 10)))
    ELSE l

\* the mutant: only the lower bound applied
ClampConfidence_lower_only(k) == RMax(Frac(1, 10), k)

\* confidence = max(0.1, min(0.95, confidence))
ClampConfidence(k) == RMax(Frac(1, 10), RMin(Frac(95, 100), k))

NoPrediction == [category_id |-> 0, predicted_amount_cents |-> 0,
                 confidence_score |-> None, historical_avg_cents |-> 0,
                 historical_spending_avg_cents |-> 0, ml_model_used |-> NoLabel]

\* MLBudgetPrediction(...), the fields the policy decides
MLBudgetPrediction(id, x, l) ==
    [category_id                   |-> id,
     predicted_amount_cents        |-> Trunc(l.predicted_amount),
     confidence_score              |-> ClampConfidence(l.confidence),
     historical_avg_cents          |-> Trunc(historical_avg(x)),
     historical_spending_avg_cents |-> Trunc(spending_historical_avg(x)),
     ml_model_used                 |-> l.model_used]

\* One pass of the loop body for category id: the branch entered, whether the
\* pass raised (the division of branch 3, the product of the peer branch, or
\* int() / min() of a None left by the chain), the local variables after the
\* safety check, the prediction.
ProcessCategory(id, x) ==
    LET b == BranchEntered(x)
        r == b = 0 \/ (b = 4 /\ PeerBlendRaises(x))
        l == IF r THEN InitPredictionVars
             ELSE SafetyNet(x, StrategyOf(b, x, InitPredictionVars))
        bad == r \/ l.predicted_amount = None \/ l.confidence = None
    IN  [branch     |-> b,
         raised     |-> bad,
         locals     |-> l,
         prediction |-> IF bad THEN NoPrediction ELSE MLBudgetPrediction(id, x, l)]

-----------------------------------------------------------------------------
(* Bounded inputs.                                                         *)

MaxPeriods == 8             \* budget periods of one category

PlannedVals == {0, 100, 10000}
SpentVals   == {0, 300, 9980}

\* a category with n periods: the periods before the latest one alike
CategoryShape(n, pp, ps, lp, ls) ==
    [planned |-> [i \in 1..n |-> IF i < n THEN pp ELSE lp],
     spent   |-> [i \in 1..n |-> IF i < n THEN ps ELSE ls],
     extra   |-> 0]

\* spending of the earlier periods within 5% but not within 2% of a planned
\* amount of 10000
NearParitySpentVals == {9600, 10400}

\* numbers of periods: every one up to 5, where the thresholds of the policy
\* (3 and 5 data points) lie, and the largest
PeriodCounts == {n \in 1..MaxPeriods : n <= 5 \/ n = MaxPeriods}

Categories ==
    {CategoryShape(n, pp, ps, lp, ls) :
        n \in PeriodCounts, pp \in PlannedVals, ps \in SpentVals,
        lp \in PlannedVals, ls \in SpentVals}
    \cup
    {CategoryShape(n, 10000, ps, lp, ls) :
        n \in {3, 5}, ps \in NearParitySpentVals,
        lp \in PlannedVals, ls \in SpentVals}

Absent   == [state |-> "absent", v |-> 0]
Fails    == [state |-> "fails", v |-> 0]
NaN      == [state |-> "nan", v |-> 0]
Value(v) == [state |-> "value", v |-> v]

\* models = {} ; Ridge.fit raised (models['linear'] unfitted) ; both in models,
\* the forest unfitted when its fit raised
ModelOutputs ==
    {<<Absent, Absent>>, <<Fails, Absent>>} \cup
    ({NaN, Value(-100), Value(0), Value(100), Value(10000), Value(20000)} \X
     {Fails, Value(0), Value(100), Value(10000), Value(10100)})

NoPeerData == [peer_samples |-> 0, avg_peer_budget |-> 0, avg_is_decimal |-> FALSE]

\* avg_is_decimal: the driver returns the average as decimal.Decimal, not float
PeerData == {NoPeerData,
             [peer_samples |-> 2, avg_peer_budget |-> 5000, avg_is_decimal |-> FALSE],
             [peer_samples |-> 7, avg_peer_budget |-> 5000, avg_is_decimal |-> FALSE]} \cup
            {[peer_samples |-> 3, avg_peer_budget |-> 5000, avg_is_decimal |-> d] :
                d \in BOOLEAN}

\* get_peer_recommendations is called only for a user in user_clusters
PeerCases == {<<FALSE, NoPeerData>>} \cup {<<TRUE, p>> : p \in PeerData}

Input(c, m, p) ==
    [c |-> c, linear |-> m[1], forest |-> m[2], in_cluster |-> p[1], peer |-> p[2]]

PolicyInputs == {Input(c, m, p) : c \in Categories, m \in ModelOutputs, p \in PeerCases}

NoOutcome == [branch |-> -1, raised |-> FALSE, locals |-> InitPredictionVars,
              prediction |-> NoPrediction]

NoCategory == CategoryShape(1, 0, 0, 0, 0)
NoInput == Input(NoCategory, <<Absent, Absent>>, <<FALSE, NoPeerData>>)

IdlePolicy  == inp = NoInput /\ out = NoOutcome
IdleRequest == /\ cats = <<>> /\ other_spending = FALSE /\ fit = "none"
               /\ in_clusters = FALSE /\ idx = 0 /\ locals = InitPredictionVars
               /\ predictions = <<>> /\ result = <<>> /\ failed = {}
               /\ stages = {}
IdleFeature == /\ rowsA = NoCategory /\ rowsB = NoCategory /\ periodP = 0
               /\ fvA = <<>> /\ fvB = <<>>
IdleFetch   == txns = <<>> /\ spending_df = <<>>

\* StandardScaler() of __init__: not fitted
Unfitted == 0
MaxCalls == 2               \* predict_with_ml calls on the predictor
NoCall == [pc |-> "idle", rows |-> 0, fit_of_X |-> Unfitted, models |-> FALSE,
           todo |-> 0, scaled_with |-> <<>>]
IdleScaler == scaler = Unfitted /\ calls = [k \in 1..MaxCalls |-> NoCall]
NoArguments == [fn |-> "none"]
NotReturned == [returned |-> FALSE]
IdleFunction == fn_in = NoArguments /\ fn_out = NotReturned
IdleAux == IdleScaler /\ IdleFunction

-----------------------------------------------------------------------------
(* SpecPolicy: the loop body of predict_with_ml applied to one category.   *)

InitPolicy ==
    /\ pc = "policy_input"
    /\ inp \in PolicyInputs
    /\ out = NoOutcome
    /\ IdleRequest /\ IdleFeature /\ IdleFetch /\ IdleAux

Decide ==
    /\ pc = "policy_input"
    /\ out' = ProcessCategory(1, inp)
    /\ pc' = "policy_done"
    /\ UNCHANGED <<inp, requestVars, featureVars, fetchVars, auxVars>>

NextPolicy == Decide

SpecPolicy == InitPolicy /\ [][NextPolicy]_vars

-----------------------------------------------------------------------------
(* Claims about the decision policy, checked under SpecPolicy.             *)

Decided == pc = "policy_done"

HasPredictions == predictions_dict(inp) # <<>>

\* |spending_avg / budget_avg - 1| < 0.02, without the division:
\* 50 * |spending - budget| < budget
NearExact ==
    LET b == budget_historical_avg(inp)
        s == spending_historical_avg(inp)
    IN  /\ b[1] > 0
        /\ s[1] > 0
        /\ RLt(RMul(Num(50), RAbs(RSub(s, b))), b)

\* C1: the branches are tried in the order 1..9 and the first one whose
\* condition holds is the one entered: fewer than 3 data points beats
\* everything, accuracy < 0.2 beats the accurate-budgeter override, and the
\* accurate-budgeter override beats the peer branch and every ML blend.
C1_BranchPriority ==
    Decided =>
        /\ out.branch \in 0..9
        /\ data_points(inp) < 3 => out.branch = 1
        /\ (data_points(inp) >= 3 /\ RLt(accuracy(inp), Frac(1, 5))) => out.branch = 2
        /\ (/\ data_points(inp) >= 3
            /\ ~RLt(accuracy(inp), Frac(1, 5))
            /\ HasPredictions
            /\ NearExact) => out.branch = 3
        /\ out.branch >= 1 =>
              /\ Guard(out.branch, inp)
              /\ \A m \in 1..(out.branch - 1) : ~Guard(m, inp)

\* the accurate-budgeter override entered although the peer branch and the
\* good-accuracy blend would take the category too
C1_Witness ==
    /\ Decided
    /\ out.branch = 3
    /\ Guard(4, inp)
    /\ Guard(6, inp)

PeerInsufficient ==
    /\ Decided
    /\ out.branch = 4
    /\ ~(inp.peer.peer_samples >= 3)

\* what branches 5..9 give for the same inputs
ContinueFromBranch5(x) ==
    StrategyOf(FirstFrom(<<5, 6, 7, 8, 9>>, 1, x), x, InitPredictionVars)

\* C2: a category that enters the peer branch without sufficient peer data
\* gets the amount, label and confidence that branches 5..9 produce for the
\* same inputs.
C2_PeerFallsThrough ==
    PeerInsufficient =>
        /\ ~out.raised
        /\ out.locals = ContinueFromBranch5(inp)

\* C3: the confidence of every prediction is in [0.1, 0.95].
C3_ConfidenceRange ==
    (Decided /\ ~out.raised) =>
        /\ RLe(Frac(1, 10), out.prediction.confidence_score)
        /\ RLe(out.prediction.confidence_score, Frac(95, 100))

\* a confidence above 0.95 before the clamp, returned as 0.95
C3_Witness ==
    /\ Decided
    /\ ~out.raised
    /\ RLt(Frac(95, 100), out.locals.confidence)
    /\ out.prediction.confidence_score = Frac(95, 100)

\* C5: when the accurate-budgeter branch decides, the amount is
\* max(budget_avg, spending_avg * 1.02), the confidence is
\* base * accuracy_factor * model_agreement * 0.92 clamped, the label names
\* the accurate budgeter, and for budget_avg = 10000 and spending_avg = 9980
\* the returned amount is 10180 cents.
C5_AccurateBudgeter ==
    (Decided /\ out.branch = 3) =>
        LET b == budget_historical_avg(inp)
            s == spending_historical_avg(inp)
        IN  /\ ~out.raised
            /\ out.locals.predicted_amount = RMax(b, RMul(s, Frac(51, 50)))
            /\ out.prediction.confidence_score =
                  ClampConfidence(RMul(Conf3(inp, 100), Frac(92, 100)))
            /\ out.prediction.ml_model_used = "Accurate Budgeter (spending  budget)"
            /\ (b = Num(10000) /\ s = Num(9980)) =>
                  out.prediction.predicted_amount_cents = 10180

\* C6 as stated: with fewer than 3 data points the label is
\* "Historical Average (insufficient data)".
C6_Original ==
    (Decided /\ data_points(inp) < 3) =>
        /\ ~out.raised
        /\ out.prediction.predicted_amount_cents = Trunc(historical_avg(inp))
        /\ out.prediction.confidence_score =
              Frac((30 + 8 * data_points(inp)) * 6, 1000)
        /\ out.prediction.ml_model_used = "Historical Average (insufficient data)"

\* C6 amended: with fewer than 3 data points, whatever the models, accuracy
\* and peers are, the amount is the historical budget average (the planned
\* amount of the category's first period, which is the mean of the planned
\* amounts strictly before the latest period, or the latest period itself when
\* it is the only one), the confidence is min(0.9, 0.3 + 0.08 n) * 0.6 and
\* the label is "Historical Average (only n data points)".
C6_InsufficientData ==
    (Decided /\ data_points(inp) < 3) =>
        /\ ~out.raised
        /\ out.prediction.predicted_amount_cents = inp.c.planned[1]
        /\ out.prediction.confidence_score =
              Frac((30 + 8 * data_points(inp)) * 6, 1000)
        /\ out.prediction.ml_model_used =
              (IF data_points(inp) = 1
               THEN "Historical Average (only 1 data points)"
               ELSE "Historical Average (only 2 data points)")

\* two periods with different plans, two model outputs, a very low accuracy
\* and a peer recommendation with 7 samples: the historical average decides
C6_Witness ==
    /\ Decided
    /\ data_points(inp) = 2
    /\ inp.c.planned[1] # inp.c.planned[2]
    /\ Len(predictions_dict(inp)) = 2
    /\ RLt(accuracy(inp), Frac(1, 5))
    /\ inp.in_cluster /\ inp.peer.peer_samples = 7
    /\ out.prediction.ml_model_used = "Historical Average (only 2 data points)"

-----------------------------------------------------------------------------
(* SpecFeatures: engineer_features on one category, then on the same       *)
(* category with the data of one period changed.                           *)

MaxRows == 3                \* budget periods of the category

RowPlannedVals == {0, 100, 200}
RowSpentVals   == {0, 100}
ExtraVals      == {0, 50}

CategoryRows ==
    UNION {{[planned |-> pl, spent |-> sp, extra |-> e] :
               pl \in [1..n -> RowPlannedVals], sp \in [1..n -> RowSpentVals],
               e \in ExtraVals} : n \in 1..MaxRows}

InitFeatures ==
    /\ pc = "features_input"
    /\ rowsA \in CategoryRows
    /\ rowsB = NoCategory /\ periodP = 0 /\ fvA = <<>> /\ fvB = <<>>
    /\ IdlePolicy /\ IdleRequest /\ IdleFetch /\ IdleAux

EngineerFeatures ==
    /\ pc = "features_input"
    /\ fvA' = engineer_features(rowsA)
    /\ pc' = "features_done"
    /\ UNCHANGED <<rowsA, rowsB, periodP, fvB, policyVars, requestVars, fetchVars, auxVars>>

\* a second run on inputs that differ from the first only in the planned
\* amount and the spending of one period k, k being P or later
EngineerMutated ==
    /\ pc = "features_done"
    /\ \E P \in 1..Len(rowsA.planned) :
       \E k \in P..Len(rowsA.planned) :
       \E np \in RowPlannedVals, ns \in RowSpentVals :
          /\ periodP' = P
          /\ rowsB' = [rowsA EXCEPT !.planned[k] = np, !.spent[k] = ns]
          /\ fvB' = engineer_features(rowsB')
    /\ pc' = "features_rerun"
    /\ UNCHANGED <<rowsA, fvA, policyVars, requestVars, fetchVars, auxVars>>

NextFeatures == EngineerFeatures \/ EngineerMutated

SpecFeatures == InitFeatures /\ [][NextFeatures]_vars

HistoricalStatistics(f) ==
    <<f.historical_mean, f.historical_min, f.historical_max, f.historical_count,
      f.historical_spent_mean, f.historical_spent_count>>

\* C7: the historical statistics of period P are the same in two runs whose
\* inputs differ only in the planned amount or the spending of period P or
\* of a later period, the first period of the category included.
C7_NoLookAhead ==
    pc = "features_rerun" =>
        HistoricalStatistics(fvA[periodP]) = HistoricalStatistics(fvB[periodP])

FeaturesEngineered == pc \in {"features_done", "features_rerun"}

\* C9: budget_accuracy of every feature vector is in [0, 1], and is 1 only
\* when the period's planned amount equals its spending and the spending is
\* positive.
C9_BudgetAccuracyRange ==
    FeaturesEngineered =>
        \A i \in 1..Len(fvA) :
            /\ RLe(Num(0), fvA[i].budget_accuracy)
            /\ RLe(fvA[i].budget_accuracy, Num(1))
            /\ fvA[i].budget_accuracy = Num(1) =>
                  /\ rowsA.planned[i] = rowsA.spent[i]
                  /\ rowsA.spent[i] > 0

\* one category with a period of accuracy 1 (plan = spend > 0), a period of
\* accuracy 0 (nothing planned, something spent) and a period without spending
C9_Witness ==
    /\ FeaturesEngineered
    /\ \E i, j, k \in 1..Len(fvA) :
          /\ fvA[i].budget_accuracy = Num(1)
          /\ rowsA.planned[i] = rowsA.spent[i] /\ rowsA.spent[i] > 0
          /\ fvA[j].budget_accuracy = Num(0)
          /\ rowsA.planned[j] = 0 /\ rowsA.spent[j] > 0
          /\ fvA[k].budget_accuracy = Frac(7, 10)
          /\ rowsA.spent[k] = 0

-----------------------------------------------------------------------------
(* SpecFetch: the spending row-set of fetch_comprehensive_data.            *)
(*                                                                         *)
(* A transaction is [category_id, amount_cents, splits], category_id 0     *)
(* standing for NULL (no row of categories joins), and a split is          *)
(* [category_id, amount_cents].  A row of the result carries, besides the  *)
(* columns category_id and spent_cents, the transaction it comes from and  *)
(* whether it is the transaction's own row or a split's.                   *)

MaxTxns == 2                \* transactions of the user in the window

TxnCategories == {0, 1, 2}
SplitLists ==
    {<<>>} \cup
    {<<[category_id |-> c, amount_cents |-> -40]>> : c \in {1, 2}} \cup
    {<<[category_id |-> c, amount_cents |-> -40],
       [category_id |-> d, amount_cents |-> -60]>> : c \in {1, 2}, d \in {1, 2}}

Transactions ==
    {[category_id |-> c, amount_cents |-> a, splits |-> sp] :
        c \in TxnCategories, a \in {-100, 100}, sp \in SplitLists}

TransactionTables == UNION {[1..n -> Transactions] : n \in 0..MaxTxns}

\* first SELECT: FROM transactions t JOIN categories c WHERE t.amount_cents < 0
TransactionRows(t, id) ==
    IF t.category_id # 0 /\ t.amount_cents < 0
    THEN <<[category_id |-> t.category_id, spent_cents |-> AbsInt(t.amount_cents),
            txn |-> id, source |-> "transaction"]>>
    ELSE <<>>

\* second SELECT: FROM transaction_splits ts JOIN transactions t
\* WHERE ts.amount_cents < 0
RECURSIVE SplitRows(_, _)
SplitRows(sp, id) ==
    IF sp = <<>> THEN <<>>
    ELSE (IF Head(sp).category_id # 0 /\ Head(sp).amount_cents < 0
          THEN <<[category_id |-> Head(sp).category_id,
                  spent_cents |-> AbsInt(Head(sp).amount_cents),
                  txn |-> id, source |-> "split"]>>
          ELSE <<>>) \o SplitRows(Tail(sp), id)

RECURSIVE AllTransactionRows(_, _)
AllTransactionRows(tb, id) ==
    IF id > Len(tb) THEN <<>>
    ELSE TransactionRows(tb[id], id) \o AllTransactionRows(tb, id + 1)

RECURSIVE AllSplitRows(_, _)
AllSplitRows(tb, id) ==
    IF id > Len(tb) THEN <<>>
    ELSE SplitRows(tb[id].splits, id) \o AllSplitRows(tb, id + 1)

\* spending_query: the two SELECTs joined by UNION ALL
spending_query(tb) == AllTransactionRows(tb, 1) \o AllSplitRows(tb, 1)

InitFetch ==
    /\ pc = "fetch_input"
    /\ txns \in TransactionTables
    /\ spending_df = <<>>
    /\ IdlePolicy /\ IdleRequest /\ IdleFeature /\ IdleAux

FetchSpending ==
    /\ pc = "fetch_input"
    /\ spending_df' = spending_query(txns)
    /\ pc' = "fetched"
    /\ UNCHANGED <<txns, policyVars, requestVars, featureVars, auxVars>>

NextFetch == FetchSpending

SpecFetch == InitFetch /\ [][NextFetch]_vars

\* the rows of category c that engineer_features sums into its spending
CategoryRowsOf(df, c) == SelectSeq(df, LAMBDA r : r.category_id = c)

\* C8: for every expense transaction that has splits and every category,
\* the transaction's own amount and the amounts of its splits are never both
\* in the rows summed into that category's spending.
C8_NoDoubleCount ==
    pc = "fetched" =>
        \A id \in 1..Len(txns) : \A c \in {1, 2} :
            LET rows == CategoryRowsOf(spending_df, c)
            IN  ~(/\ txns[id].splits # <<>>
                  /\ \E i \in 1..Len(rows) :
                        rows[i].txn = id /\ rows[i].source = "transaction"
                  /\ \E j \in 1..Len(rows) :
                        rows[j].txn = id /\ rows[j].source = "split")

-----------------------------------------------------------------------------
(* Spec: one call of predict_with_ml.                                      *)

MaxCategories == 2          \* categories in the user's budget rows

RequestCategories ==
    {CategoryShape(1, 100, 0, 100, 0),
     CategoryShape(3, 100, 0, 100, 0),
     CategoryShape(3, 0, 300, 100, 300),
     CategoryShape(4, 100, 300, 100, 0),
     CategoryShape(5, 10000, 9980, 10000, 9980)}

RequestTables == UNION {[1..n -> RequestCategories] : n \in 0..MaxCategories}

Unfilled(c) == Input(c, <<Absent, Absent>>, <<FALSE, NoPeerData>>)

\* "if budgets_df.empty: return []" left out
AfterFetch_unchecked(budgets_df) == "engineer"

\* if budgets_df.empty: return []
AfterFetch(budgets_df) == IF budgets_df = <<>> THEN "returned" ELSE "engineer"

\* budgets_df, spending_df = fetch_comprehensive_data(...): the user's rows,
\* or empty frames when connecting or a query raises
Fetch ==
    /\ pc = "request"
    /\ \E tb \in RequestTables, o \in BOOLEAN, raises \in BOOLEAN :
          LET budgets_df == IF raises THEN <<>> ELSE tb
          IN  /\ cats' = [i \in 1..Len(budgets_df) |-> Unfilled(budgets_df[i])]
              /\ other_spending' = (o /\ ~raises)
              /\ pc' = AfterFetch(budgets_df)
              /\ stages' = {"fetch_comprehensive_data"} \cup
                           (IF raises THEN {"fetch raised"} ELSE {})
    /\ result' = <<>>
    /\ UNCHANGED <<fit, in_clusters, idx, locals, predictions, failed,
                   policyVars, featureVars, fetchVars, auxVars>>

\* spending_df.empty
SpendingEmpty ==
    /\ ~other_spending
    /\ \A i \in 1..Len(cats) : total_category_spending(cats[i].c) = 0

\* With an empty spending_df, category_spending is a DataFrame without
\* columns and category_spending['txn_date'] raises KeyError for a period
\* that has earlier periods; the handler of predict_with_ml returns [].
EngineerRaises ==
    /\ SpendingEmpty
    /\ \E i \in 1..Len(cats) : Len(cats[i].c.planned) >= 2

Engineer ==
    /\ pc = "engineer"
    /\ IF EngineerRaises
       THEN pc' = "except" /\ result' = <<>>
       ELSE pc' = "train" /\ UNCHANGED result
    /\ stages' = stages \cup {"engineer_features"}
    /\ UNCHANGED <<cats, other_spending, fit, in_clusters, idx, locals, predictions,
                   failed, policyVars, featureVars, fetchVars, auxVars>>

\* len(features_df)
RECURSIVE FeatureCount(_)
FeatureCount(cs) == IF cs = <<>> THEN 0 ELSE Len(Head(cs).c.planned) + FeatureCount(Tail(cs))

\* build_ml_models: {} below 5 feature vectors; a fit that raises leaves the
\* unfitted model in models
Train ==
    /\ pc = "train"
    /\ IF FeatureCount(cats) < 5
       THEN fit' = "none"
       ELSE fit' \in {"ok", "linear_failed", "forest_failed"}
    /\ pc' = "cluster"
    /\ stages' = stages \cup {"build_ml_models"}
    /\ UNCHANGED <<cats, other_spending, in_clusters, idx, locals, predictions, result,
                   failed, policyVars, featureVars, fetchVars, auxVars>>

\* user_clusters = cluster_users(create_user_profiles(...))
Cluster ==
    /\ pc = "cluster"
    /\ in_clusters' \in BOOLEAN
    /\ pc' = "loop"
    /\ stages' = stages \cup {"cluster_users"}
    /\ UNCHANGED <<cats, other_spending, fit, idx, locals, predictions, result,
                   failed, policyVars, featureVars, fetchVars, auxVars>>

\* y of build_ml_models: max(target_amount, actual_spent) when there is
\* spending in the period, else target_amount
TrainingTargets(cs) ==
    UNION {{IF cs[k].c.spent[i] > cs[k].c.planned[i]
            THEN cs[k].c.spent[i] ELSE cs[k].c.planned[i] :
               i \in 1..Len(cs[k].c.planned)} : k \in 1..Len(cs)}

SetMin(S) == CHOOSE v \in S : \A w \in S : v <= w
SetMax(S) == CHOOSE v \in S : \A w \in S : v >= w

\* What the models give for a category.  The forest averages training
\* targets, so its output lies between the least and the largest of them;
\* the linear model is not bounded by them and may go negative.
RequestModelOutputs(f, cs) ==
    LET linear == {Value(-100), Value(10000)}
        forest == {Value(SetMin(TrainingTargets(cs))), Value(SetMax(TrainingTargets(cs)))}
    IN  CASE f = "none"          -> {<<Absent, Absent>>}
          [] f = "linear_failed" -> {<<Fails, Absent>>}
          [] f = "forest_failed" -> linear \X {Fails}
          [] f = "ok"            -> linear \X forest

\* the models are functions of the features: categories with the same rows
\* get the same outputs
SameAsEarlier(m, k) ==
    \A j \in 1..(k - 1) :
        cats[j].c = cats[k].c => <<cats[j].linear, cats[j].forest>> = m

RequestPeerCases(member) ==
    IF member
    THEN {<<TRUE, NoPeerData>>} \cup
         {<<TRUE, [peer_samples |-> 7, avg_peer_budget |-> 5000, avg_is_decimal |-> d]>> :
             d \in BOOLEAN}
    ELSE {<<FALSE, NoPeerData>>}

\* get_peer_recommendations is called inside the peer branch only: elsewhere
\* there is no peer data
PeerLookup(c, m) == BranchEntered(Input(c, m, <<in_clusters, NoPeerData>>)) = 4

PeerCasesAt(c, m) ==
    IF PeerLookup(c, m) THEN RequestPeerCases(in_clusters)
    ELSE {<<in_clusters, NoPeerData>>}

\* one pass of "for category_id in category_ids"; an exception leaves the
\* loop for the handler at 1252-1254, which returns []
ProcessNext ==
    /\ pc = "loop"
    /\ idx < Len(cats)
    /\ \E m \in {mm \in RequestModelOutputs(fit, cats) : SameAsEarlier(mm, idx + 1)} :
       \E p \in PeerCasesAt(cats[idx + 1].c, m) :
       \E x \in {Input(cats[idx + 1].c, m, p)} :
       \E o \in {ProcessCategory(idx + 1, x)} :
              /\ cats' = [cats EXCEPT ![idx + 1] = x]
              /\ locals' = o.locals
              /\ stages' = stages \cup (IF o.branch = 4
                                        THEN {"get_peer_recommendations"} ELSE {})
              /\ IF o.raised
                 THEN /\ failed' = failed \cup {idx + 1}
                      /\ result' = <<>>
                      /\ pc' = "except"
                      /\ UNCHANGED <<predictions, idx>>
                 ELSE /\ predictions' = Append(predictions, o.prediction)
                      /\ idx' = idx + 1
                      /\ UNCHANGED <<failed, result, pc>>
    /\ UNCHANGED <<other_spending, fit, in_clusters, policyVars, featureVars, fetchVars, auxVars>>

RECURSIVE InsertByConfidence(_, _)
InsertByConfidence(sorted, q) ==
    IF sorted = <<>> THEN <<q>>
    ELSE IF RLt(Head(sorted).confidence_score, q.confidence_score)
         THEN <<q>> \o sorted
         ELSE <<Head(sorted)>> \o InsertByConfidence(Tail(sorted), q)

\* predictions left in the order of the loop
SortByConfidence_unsorted(ps) == ps

\* predictions.sort(key=lambda x: x.confidence_score, reverse=True): stable
RECURSIVE SortByConfidence(_)
SortByConfidence(ps) ==
    IF ps = <<>> THEN <<>>
    ELSE InsertByConfidence(SortByConfidence(SubSeq(ps, 1, Len(ps) - 1)), ps[Len(ps)])

Return ==
    /\ pc = "loop"
    /\ idx = Len(cats)
    /\ result' = SortByConfidence(predictions)
    /\ pc' = "returned"
    /\ UNCHANGED <<cats, other_spending, fit, in_clusters, idx, locals, predictions,
                   failed, stages, policyVars, featureVars, fetchVars, auxVars>>

Init ==
    /\ pc = "request"
    /\ IdleRequest /\ IdlePolicy /\ IdleFeature /\ IdleFetch /\ IdleAux

Next == Fetch \/ Engineer \/ Train \/ Cluster \/ ProcessNext \/ Return

Spec == Init /\ [][Next]_vars

-----------------------------------------------------------------------------
(* Claims about the whole call, checked under Spec.                        *)

\* category k has been through the loop body
Processed(k) == k <= idx \/ k \in failed

\* category k entered the peer branch and the peer data was empty or had
\* fewer than 3 samples
PeerBranchWithoutPeers(k) ==
    /\ Processed(k)
    /\ cats[k].in_cluster
    /\ cats[k].peer.peer_samples < 3
    /\ BranchEntered(cats[k]) = 4

\* what the safety check gives category k, from the category's own rows
OwnFallback(k) ==
    LET n  == Len(cats[k].c.planned)
        h  == IF n = 1 THEN Num(cats[k].c.planned[1])
              ELSE Mean(SubSeq(cats[k].c.planned, 1, n - 1))
        hs == SelectPos(SubSeq(cats[k].c.spent, 1, n - 1))
        b  == IF 30 + 8 * n < 90 THEN 30 + 8 * n ELSE 90
    IN  [category_id                   |-> k,
         predicted_amount_cents        |-> Trunc(h),
         confidence_score              |-> Frac(b * 6, 1000),
         historical_avg_cents          |-> Trunc(h),
         historical_spending_avg_cents |-> IF hs = <<>> THEN 0 ELSE Trunc(Mean(hs)),
         ml_model_used                 |-> "Fallback Historical Average"]

\* C4: a call that reaches its return for non-empty budget rows returns
\* exactly one prediction per category, each with an amount, a label and a
\* confidence; a category that enters the peer branch without sufficient
\* peer data does not fail and gets the fallback computed from its own rows,
\* whatever the category before it left in the local variables.
C4_OnePredictionPerCategory ==
    /\ (pc = "returned" /\ cats # <<>>) =>
          /\ Len(result) = Len(cats)
          /\ \A k \in 1..Len(cats) :
                \E i \in 1..Len(result) :
                    /\ result[i].category_id = k
                    /\ result[i].ml_model_used # NoLabel
                    /\ result[i].confidence_score # None
    /\ \A k \in 1..Len(cats) :
          PeerBranchWithoutPeers(k) =>
              /\ k \notin failed
              /\ predictions[k] = OwnFallback(k)

\* two categories returned, the second one decided by the safety check after
\* the peer branch found no peer data, the first one by another branch with
\* another amount
C4_Witness ==
    /\ pc = "returned"
    /\ Len(cats) = 2
    /\ PeerBranchWithoutPeers(2)
    /\ BranchEntered(cats[1]) # 4
    /\ \E i, j \in 1..Len(result) :
          /\ result[i].category_id = 1
          /\ result[j].category_id = 2
          /\ result[j].ml_model_used = "Fallback Historical Average"
          /\ result[i].predicted_amount_cents # result[j].predicted_amount_cents

\* C10: when the processing of one category raises, the predictions of the
\* other categories are still returned.
C10_OnlyFailedCategorySkipped ==
    (pc \in {"returned", "except"} /\ failed # {}) =>
        \A i \in 1..Len(predictions) :
            \E j \in 1..Len(result) : result[j] = predictions[i]

-----------------------------------------------------------------------------
(* SpecScaler: predict_with_ml calls on the module-level predictor and its *)
(* one StandardScaler.                                                     *)
(*                                                                         *)
(* A call is [pc, rows, fit_of_X, models, todo, scaled_with]: rows is      *)
(* len(features_df), fit_of_X what fitting a scaler on the call's feature  *)
(* matrix gives (its mean_/scale_, two users' matrices giving different    *)
(* ones), models whether build_ml_models returned models, todo the         *)
(* categories the loop has still to process and scaled_with the state of   *)
(* the scaler at each self.scaler.transform(X_pred) of the call.           *)

MaxScaled == 2              \* categories of one call

FitsOfX == {10, 20}
RowCounts == {3, 5}

\* predict_with_ml is entered; features_df is built from the user's rows
CallStart(k) ==
    /\ calls[k].pc = "idle"
    /\ \E r \in RowCounts, f \in FitsOfX, n \in 1..MaxScaled :
          calls' = [calls EXCEPT ![k] = [pc |-> "build", rows |-> r, fit_of_X |-> f,
                                         models |-> FALSE, todo |-> n,
                                         scaled_with |-> <<>>]]
    /\ UNCHANGED <<scaler, pc, policyVars, requestVars, featureVars, fetchVars, functionVars>>

\* build_ml_models: {} below 5 rows, else X_scaled = self.scaler.fit_transform(X)
BuildFitScaler(k) ==
    /\ calls[k].pc = "build"
    /\ IF calls[k].rows < 5
       THEN /\ calls' = [calls EXCEPT ![k].pc = "loop"]
            /\ UNCHANGED scaler
       ELSE /\ scaler' = calls[k].fit_of_X
            /\ calls' = [calls EXCEPT ![k].pc = "fit_models"]
    /\ UNCHANGED <<pc, policyVars, requestVars, featureVars, fetchVars, functionVars>>

\* build_ml_models: the models are fitted on X_scaled and returned
BuildFitModels(k) ==
    /\ calls[k].pc = "fit_models"
    /\ calls' = [calls EXCEPT ![k].pc = "loop", ![k].models = TRUE]
    /\ UNCHANGED <<scaler, pc, policyVars, requestVars, featureVars, fetchVars, functionVars>>

\* loop body: if models: X_pred_scaled = self.scaler.transform(X_pred)
ScaleCategory(k) ==
    /\ calls[k].pc = "loop"
    /\ calls[k].todo > 0
    /\ calls' = [calls EXCEPT
                   ![k].todo = @ - 1,
                   ![k].scaled_with = IF calls[k].models THEN Append(@, scaler) ELSE @]
    /\ UNCHANGED <<scaler, pc, policyVars, requestVars, featureVars, fetchVars, functionVars>>

\* return predictions
CallReturn(k) ==
    /\ calls[k].pc = "loop"
    /\ calls[k].todo = 0
    /\ calls' = [calls EXCEPT ![k].pc = "done"]
    /\ UNCHANGED <<scaler, pc, policyVars, requestVars, featureVars, fetchVars, functionVars>>

InitScaler ==
    /\ pc = "scaler"
    /\ IdleScaler /\ IdleFunction
    /\ IdlePolicy /\ IdleRequest /\ IdleFeature /\ IdleFetch

NextScaler ==
    \E k \in 1..MaxCalls :
        \/ CallStart(k)
        \/ BuildFitScaler(k)
        \/ BuildFitModels(k)
        \/ ScaleCategory(k)
        \/ CallReturn(k)

SpecScaler == InitScaler /\ [][NextScaler]_vars

InProgress(k) == calls[k].pc \notin {"idle", "done"}

\* every transform of a call used the scaler fitted on the call's own matrix
ScaledWithOwnFit ==
    \A k \in 1..MaxCalls : \A i \in 1..Len(calls[k].scaled_with) :
        calls[k].scaled_with[i] = calls[k].fit_of_X

\* between calls the predictor holds no fit of an earlier call
NoFitSurvives ==
    (\A k \in 1..MaxCalls : ~InProgress(k)) => scaler = Unfitted

\* C11: no state survives or is shared between predict_with_ml calls: in
\* every interleaving of the steps of two calls the scaler that transforms a
\* call's prediction features is the one fitted on that call's feature
\* matrix, and no fit is left in the predictor when no call is running.
C11_NoSharedScaler == ScaledWithOwnFit /\ NoFitSurvives

-----------------------------------------------------------------------------
(* SpecFunctions: one call of a function of the predictor, or of the       *)
(* /user-insights handler, on arguments drawn from bounded sets.           *)

MaxPeerRows == 3            \* rows of peer_budgets for one category
MaxInsightCategories == 2   \* main_categories of a /user-insights request

PeerPlannedVals == {0, 5000}
SimilarityPeerCounts == {0, 1, 2}

PeerBudgets == UNION {[1..n -> PeerPlannedVals] : n \in 0..MaxPeerRows}

\* {}
EmptyDict == [empty |-> TRUE]

\* SELECT AVG(planned_cents), COUNT(*) FROM peer_budgets WHERE planned_cents > 0
\* (AVG of no row is NULL)
peer_query(peer_budgets) ==
    LET qualifying == SelectSeq(peer_budgets, LAMBDA v : v > 0)
    IN  [avg_peer_budget |-> IF qualifying = <<>> THEN None ELSE Mean(qualifying),
         peer_samples    |-> Len(qualifying)]

\* member: user_id in user_clusters; similar: len(similarity_peers);
\* raises: connecting or executing the query raises
get_peer_recommendations(member, similar, peer_budgets, raises) ==
    IF ~member THEN EmptyDict
    ELSE IF similar = 0 THEN EmptyDict
    ELSE IF raises THEN EmptyDict
    ELSE LET row == peer_query(peer_budgets)      \* result = cursor.fetchone()
         IN  IF row.avg_peer_budget # None /\ row.avg_peer_budget # Num(0)
             THEN [empty           |-> FALSE,
                   avg_peer_budget |-> row.avg_peer_budget,
                   peer_samples    |-> row.peer_samples,
                   peer_count      |-> similar]
             ELSE EmptyDict

\* the loop of get_user_insights over main_categories
RECURSIVE insight_recommendations(_, _, _, _)
insight_recommendations(member, similar, cs, id) ==
    IF id > Len(cs) THEN <<>>
    ELSE LET peer_data == get_peer_recommendations(member, similar,
                                                   cs[id].peer_budgets, cs[id].raises)
         IN  (IF peer_data # EmptyDict
              THEN <<[category_id     |-> id,
                      avg_peer_budget |-> RDiv(peer_data.avg_peer_budget, Num(100)),
                      peer_count      |-> peer_data.peer_count,
                      samples         |-> peer_data.peer_samples]>>
              ELSE <<>>) \o insight_recommendations(member, similar, cs, id + 1)

get_user_insights(member, similar, cs) ==
    IF ~member
    THEN [message |-> "Insufficient data for user clustering", peer_recommendations |-> <<>>]
    ELSE [message |-> "", peer_recommendations |-> insight_recommendations(member, similar, cs, 1)]

(* classify_spending_behavior and cluster_users, called one after the      *)
(* other as predict_with_ml does.  A feature row is the category_id of the *)
(* vector, a profile row the user_id of the row.  The labels of KMeans are *)
(* any assignment of the rows to the clusters.                             *)

MaxVectors == 3             \* rows of features_df
MaxProfileRows == 3         \* rows of user_profiles_df

VectorCategories == {1, 2}
ProfileUsers == {1, 2}

FeatureRows == UNION {[1..n -> VectorCategories] : n \in 1..MaxVectors}
ProfileRows == UNION {[1..n -> ProfileUsers] : n \in 0..MaxProfileRows}

Least(a, b) == IF a < b THEN a ELSE b
Largest(a, b) == IF a > b THEN a ELSE b

\* cluster_mapping = {0: "Conservative", 1: "Balanced", 2: "Volatile"}
cluster_mapping == <<"Conservative", "Balanced", "Volatile">>

\* KMeans(n_clusters).fit_predict on n rows
KMeansLabels(n, n_clusters) == [1..n -> 0..(n_clusters - 1)]

\* the guard "len(features_df) < 3" left out
TooFewVectors_unguarded(rows) == FALSE

\* features_df.empty or len(features_df) < 3
TooFewVectors(rows) == rows = <<>> \/ Len(rows) < 3

\* category_clusters after the loop over the rows: the last row of a
\* category decides
category_clusters(rows, clusters) ==
    [empty   |-> FALSE,
     mapping |-> [c \in {rows[i] : i \in 1..Len(rows)} |->
                    LET last == CHOOSE i \in 1..Len(rows) :
                                   /\ rows[i] = c
                                   /\ \A j \in (i + 1)..Len(rows) : rows[j] # c
                    IN  cluster_mapping[clusters[last] + 1]]]

\* the possible returns of classify_spending_behavior; raises: the body of
\* the try raises
classify_spending_behavior(rows, raises) ==
    IF TooFewVectors(rows) THEN {EmptyDict}
    ELSE IF raises THEN {EmptyDict}
    ELSE {category_clusters(rows, cl) :
             cl \in KMeansLabels(Len(rows), Least(3, Len(rows)))}

\* len(user_features) after groupby('user_id')
n_users(profiles) == Cardinality({profiles[i] : i \in 1..Len(profiles)})

\* min(n_clusters, max(2, n_users // 2)) with n_clusters = 5
effective_clusters(n) == Least(5, Largest(2, n \div 2))

\* the [:10] of similarity_peers
PeerCap == 10

\* the user ids of a set in the order of the index of user_features
RECURSIVE Ascending(_)
Ascending(S) ==
    IF S = {} THEN <<>>
    ELSE LET least == CHOOSE v \in S : \A w \in S : v <= w
         IN  <<least>> \o Ascending(S \ {least})

\* [uid for uid in clusters[cluster_id]['user_ids'] if uid != user_id]
cluster_peers(users, cluster, u) ==
    Ascending({v \in users : v # u /\ cluster[v] = cluster[u]})

\* the mutant: the list of peers not cut
user_clusters_of_uncapped(users, cluster) ==
    [empty   |-> FALSE,
     mapping |-> [u \in users |->
                    [cluster_id       |-> cluster[u],
                     similarity_peers |-> cluster_peers(users, cluster, u)]]]

user_clusters_of(users, cluster) ==
    [empty   |-> FALSE,
     mapping |-> [u \in users |->
                    [cluster_id       |-> cluster[u],
                     similarity_peers |->
                        LET peers == cluster_peers(users, cluster, u)
                        IN  SubSeq(peers, 1, Least(PeerCap, Len(peers)))]]]

\* The clusters kmeans.fit_predict puts users in: the first two.  With
\* coinciding points KMeans leaves clusters empty, so these labels are among
\* its outcomes for every n_clusters >= 2.
UsedClusters == {0, 1}

\* the possible returns of cluster_users
cluster_users(profiles, raises) ==
    IF profiles = <<>> THEN {EmptyDict}
    ELSE IF raises THEN {EmptyDict}
    ELSE IF n_users(profiles) < 2 THEN {EmptyDict}
    ELSE LET users == {profiles[i] : i \in 1..Len(profiles)}
         IN  {user_clusters_of(users, cl) :
                 cl \in [users -> (0..(effective_clusters(n_users(profiles)) - 1))
                                      \cap UsedClusters]}

MaxUsers == 12              \* users of user_profiles_df, one row each

\* user_profiles_df with one row per user
ClusterUsersArguments ==
    {[fn |-> "cluster_users", profiles |-> [i \in 1..n |-> i], raises |-> r] :
        n \in 0..MaxUsers, r \in BOOLEAN}

ClusteringArguments ==
    {[fn |-> "clustering", features |-> f, profiles |-> pr,
      classify_raises |-> r1, cluster_raises |-> r2] :
        f \in FeatureRows, pr \in ProfileRows, r1 \in BOOLEAN, r2 \in BOOLEAN}

PeerArguments ==
    {[fn |-> "get_peer_recommendations", member |-> mb, similar |-> n,
      peer_budgets |-> pb, raises |-> r] :
        mb \in BOOLEAN, n \in SimilarityPeerCounts, pb \in PeerBudgets, r \in BOOLEAN}

\* the rows of a category's peers, lowest first: AVG and COUNT do not depend
\* on the order of the rows
OrderedPeerBudgets ==
    {pb \in PeerBudgets : \A i \in 1..(Len(pb) - 1) : pb[i] <= pb[i + 1]}

\* the query of one category: it raises, or it runs over the rows of the peers
CategoryQueries ==
    {[peer_budgets |-> <<>>, raises |-> TRUE]} \cup
    {[peer_budgets |-> pb, raises |-> FALSE] : pb \in OrderedPeerBudgets}

InsightCategories ==
    UNION {[1..n -> CategoryQueries] : n \in 0..MaxInsightCategories}

InsightArguments ==
    {[fn |-> "get_user_insights", member |-> mb, similar |-> n, categories |-> cs] :
        mb \in BOOLEAN, n \in SimilarityPeerCounts, cs \in InsightCategories}

FunctionArguments ==
    PeerArguments \cup InsightArguments \cup ClusteringArguments \cup ClusterUsersArguments

InitFunctions ==
    /\ pc = "function"
    /\ fn_in \in FunctionArguments
    /\ fn_out = NotReturned
    /\ IdleScaler /\ IdlePolicy /\ IdleRequest /\ IdleFeature /\ IdleFetch

Returns(v) ==
    /\ fn_out' = [returned |-> TRUE, value |-> v]
    /\ pc' = "function_returned"
    /\ UNCHANGED <<fn_in, scalerVars, policyVars, requestVars, featureVars, fetchVars>>

CallGetPeerRecommendations ==
    /\ pc = "function" /\ fn_in.fn = "get_peer_recommendations"
    /\ Returns(get_peer_recommendations(fn_in.member, fn_in.similar,
                                        fn_in.peer_budgets, fn_in.raises))

CallGetUserInsights ==
    /\ pc = "function" /\ fn_in.fn = "get_user_insights"
    /\ Returns(get_user_insights(fn_in.member, fn_in.similar, fn_in.categories))

\* spending_clusters = self.classify_spending_behavior(features_df)
\* user_clusters = self.cluster_users(user_profiles_df)
CallClustering ==
    /\ pc = "function" /\ fn_in.fn = "clustering"
    /\ \E sc \in classify_spending_behavior(fn_in.features, fn_in.classify_raises),
          uc \in cluster_users(fn_in.profiles, fn_in.cluster_raises) :
          Returns([spending_clusters |-> sc, user_clusters |-> uc])

CallClusterUsers ==
    /\ pc = "function" /\ fn_in.fn = "cluster_users"
    /\ \E uc \in cluster_users(fn_in.profiles, fn_in.raises) : Returns(uc)

NextFunctions ==
    \/ CallGetPeerRecommendations
    \/ CallGetUserInsights
    \/ CallClustering
    \/ CallClusterUsers

SpecFunctions == InitFunctions /\ [][NextFunctions]_vars

Returned(f) == pc = "function_returned" /\ fn_in.fn = f

\* rows of peer_budgets that qualify as samples
QualifyingSamples(peer_budgets) ==
    Cardinality({i \in 1..Len(peer_budgets) : peer_budgets[i] > 0})

\* C12: get_peer_recommendations returns {} whenever fewer than 3 qualifying
\* peer-period samples exist, and /user-insights never reports a peer
\* recommendation backed by fewer than 3 samples.
C12_MinimumPeerSupport ==
    /\ Returned("get_peer_recommendations") =>
          (QualifyingSamples(fn_in.peer_budgets) < 3 => fn_out.value = EmptyDict)
    /\ Returned("get_user_insights") =>
          \A i \in 1..Len(fn_out.value.peer_recommendations) :
              fn_out.value.peer_recommendations[i].samples >= 3

-----------------------------------------------------------------------------
(* Further claims about the whole call, checked under Spec.                *)

Occurrences(ps, q) == Cardinality({i \in 1..Len(ps) : ps[i] = q})

\* C13: the returned list is in descending order of confidence_score and
\* holds exactly the predictions built by the loop, unaltered.
C13_DescendingConfidence ==
    pc = "returned" =>
        /\ \A i \in 1..(Len(result) - 1) :
              RLe(result[i + 1].confidence_score, result[i].confidence_score)
        /\ Len(result) = Len(predictions)
        /\ \A i \in 1..Len(predictions) :
              Occurrences(result, predictions[i]) = Occurrences(predictions, predictions[i])

\* a returned list whose order differs from the order of the loop
C13_Witness ==
    /\ pc = "returned"
    /\ Len(result) = 2
    /\ result[1] = predictions[2]
    /\ RLt(result[2].confidence_score, result[1].confidence_score)

\* engineer_features on an empty budget row-set gives no feature vector
EmptyBudgets == <<>>

\* engineer_features of the whole row-set: "if budgets_df.empty: return
\* pd.DataFrame()", else the vectors of every category, category by category
RECURSIVE features_df(_)
features_df(budgets_df) ==
    IF budgets_df = EmptyBudgets THEN <<>>
    ELSE engineer_features(Head(budgets_df).c) \o features_df(Tail(budgets_df))

\* C14: with an empty budget row-set, which is also what a failed fetch
\* gives, engineer_features gives an empty feature set and predict_with_ml
\* returns an empty list without raising and without running training,
\* clustering or peer lookup.
C14_EmptyBudgets ==
    /\ features_df(EmptyBudgets) = <<>>
    /\ (pc # "request" /\ cats = <<>>) =>
          /\ pc = "returned"
          /\ result = <<>>
          /\ failed = {}
          /\ stages \cap {"build_ml_models", "cluster_users",
                          "get_peer_recommendations"} = {}

\* a call whose fetch raised and gave empty frames has returned
C14_Witness ==
    /\ pc = "returned"
    /\ cats = <<>>
    /\ "fetch raised" \in stages
    /\ result = <<>>

\* C15: with budget rows and an empty spending row-set engineer_features
\* does not raise, whatever the number of periods per category, and
\* predict_with_ml returns a prediction for every category.
C15_EmptySpending ==
    (pc \notin {"request", "engineer"} /\ cats # <<>> /\ SpendingEmpty) =>
        /\ pc # "except"
        /\ "engineer_features" \in stages
        /\ pc = "returned" => Len(result) = Len(cats)

\* C16: classify_spending_behavior returns an empty mapping for fewer than
\* 3 feature vectors and cluster_users returns an empty mapping for fewer
\* than 2 distinct users; both return.
C16_EmptyClusterMappings ==
    Returned("clustering") =>
        /\ Len(fn_in.features) < 3 => fn_out.value.spending_clusters = EmptyDict
        /\ n_users(fn_in.profiles) < 2 => fn_out.value.user_clusters = EmptyDict

\* two feature vectors and two profile rows of one user: both mappings empty
C16_Witness ==
    /\ Returned("clustering")
    /\ Len(fn_in.features) = 2
    /\ Len(fn_in.profiles) = 2 /\ n_users(fn_in.profiles) = 1
    /\ ~fn_in.classify_raises /\ ~fn_in.cluster_raises
    /\ fn_out.value.spending_clusters = EmptyDict
    /\ fn_out.value.user_clusters = EmptyDict

\* the members of the list of peers of user u
PeerSet(v, u) ==
    {v.mapping[u].similarity_peers[i] : i \in 1..Len(v.mapping[u].similarity_peers)}

-----------------------------------------------------------------------------
(* Further claims about engineer_features, checked under SpecFeatures.     *)

\* the category of rowsA as the loop of predict_with_ml sees it when both
\* models give a valid prediction and the user is in no cluster
WithBothModels(c) == Input(c, <<Value(100), Value(100)>>, <<FALSE, NoPeerData>>)

\* C17: budget_accuracy is 0.5 only when the category has no spending at
\* all and 0.7 only when the category has spending but the period has none;
\* so the neutral-accuracy branch of the policy is entered only for
\* categories without spending.
C17_NeutralAccuracyMeansNoEvidence ==
    FeaturesEngineered =>
        /\ \A i \in 1..Len(fvA) :
              /\ fvA[i].budget_accuracy = Frac(1, 2) =>
                    total_category_spending(rowsA) = 0
              /\ fvA[i].budget_accuracy = Frac(7, 10) =>
                    rowsA.spent[i] = 0 /\ total_category_spending(rowsA) > 0
        /\ BranchEntered(WithBothModels(rowsA)) = 5 =>
              total_category_spending(rowsA) = 0

-----------------------------------------------------------------------------
(* Further claims about the decision policy, checked under SpecPolicy.     *)

PeerBranchWithPeers ==
    /\ Decided
    /\ out.branch = 4
    /\ inp.peer.peer_samples >= 3

\* min(0.6, peer_samples / 10)
ClaimedPeerWeight ==
    IF inp.peer.peer_samples < 6 THEN Frac(inp.peer.peer_samples, 10) ELSE Frac(6, 10)

\* min(0.8, 0.4 + peer_samples x 0.05)
ClaimedPeerConfidence ==
    IF 40 + 5 * inp.peer.peer_samples < 80
    THEN Frac(40 + 5 * inp.peer.peer_samples, 100) ELSE Frac(80, 100)

Between(v, a, b) == (RLe(a, v) /\ RLe(v, b)) \/ (RLe(b, v) /\ RLe(v, a))

\* C18: in the peer branch with at least 3 samples the amount is
\* history x (1 - w) + peer_budget x w with w = min(0.6, samples / 10), or
\* the peer budget when the historical average is 0; the confidence is
\* min(0.8, 0.4 + samples x 0.05); the label is the peer-informed one in the
\* first case and the peer-based one in the second; the amount lies between
\* the historical average and the peer budget.
C18_PeerBranch ==
    PeerBranchWithPeers =>
        LET h == historical_avg(inp)
            p == Num(inp.peer.avg_peer_budget)
            w == ClaimedPeerWeight
        IN  /\ data_points(inp) >= 3 /\ data_points(inp) < 5
            /\ inp.in_cluster
            /\ ~out.raised
            /\ out.locals.confidence = ClaimedPeerConfidence
            /\ h[1] > 0 =>
                  /\ out.locals.predicted_amount =
                        RAdd(RMul(h, RSub(Num(1), w)), RMul(p, w))
                  /\ out.locals.model_used = "Peer-Informed Prediction"
            /\ h[1] = 0 =>
                  /\ out.locals.predicted_amount = p
                  /\ out.locals.model_used = "Peer-Based Recommendation"
            /\ Between(out.locals.predicted_amount, h, p)

\* 0.wa x a + 0.wb x b, in hundredths
Weighted(a, wa, b, wb) == RDiv(RAdd(RMul(Num(wa), a), RMul(Num(wb), b)), Num(100))

\* C19: in the general ML branch, with spending history, a ratio
\* spending_avg / budget_avg above 1.05 gives min(ml, 1.10 x spending_avg),
\* never more than 110% of the spending average; a ratio below 0.95 gives
\* 0.7 x budget_avg + 0.3 x ml; otherwise the amount is
\* 0.8 x spending_avg + 0.2 x ml and 0.02 <= |ratio - 1| <= 0.05; without
\* spending history the amount is 0.85 x budget_avg + 0.15 x ml.
C19_GeneralMLBranch ==
    (Decided /\ out.branch = 8) =>
        LET b  == budget_historical_avg(inp)
            sp == spending_historical_avg(inp)
            ml == ml_predicted_amount(inp)
            a  == out.locals.predicted_amount
            d  == RAbs(RSub(sp, b))
        IN  /\ HasPredictions
            /\ ~out.raised
            /\ sp[1] > 0 =>
                  /\ b[1] > 0
                  /\ RLt(RMul(Num(105), b), RMul(Num(100), sp)) =>
                        /\ a = (IF RLt(ml, RMul(Frac(11, 10), sp))
                                THEN ml ELSE RMul(Frac(11, 10), sp))
                        /\ RLe(RMul(Num(10), a), RMul(Num(11), sp))
                  /\ RLt(RMul(Num(100), sp), RMul(Num(95), b)) =>
                        a = Weighted(b, 70, ml, 30)
                  /\ (/\ ~RLt(RMul(Num(105), b), RMul(Num(100), sp))
                      /\ ~RLt(RMul(Num(100), sp), RMul(Num(95), b))) =>
                        /\ a = Weighted(sp, 80, ml, 20)
                        /\ RLe(RMul(Num(2), b), RMul(Num(100), d))
                        /\ RLe(RMul(Num(100), d), RMul(Num(5), b))
            /\ sp[1] = 0 => a = Weighted(b, 85, ml, 15)

\* the near-parity sub-branch entered: spending 4% above the budget average
C19_Witness ==
    /\ Decided
    /\ out.branch = 8
    /\ budget_historical_avg(inp) = Num(10000)
    /\ spending_historical_avg(inp) = Num(10400)
    /\ out.locals.model_used = "Balanced Ensemble (reasonable budgeter)"

\* 1.2 above 0.7, 0.8 below 0.3, else 1.0
ClaimedAccuracyFactor ==
    IF RLt(Frac(7, 10), accuracy(inp)) THEN Frac(12, 10)
    ELSE IF RLt(accuracy(inp), Frac(3, 10)) THEN Frac(8, 10)
    ELSE Num(1)

\* C20: in the good-accuracy branch the amount is
\* 0.7 x max(budget_avg, 0.95 x spending_avg) + 0.3 x ml when spending_avg > 0
\* and spending_avg > 1.05 x budget_avg, else 0.95 x history + 0.05 x ml when
\* |ml - history| > 0.5 x history, else 0.6 x history + 0.4 x ml; the
\* confidence before the clamp is base x accuracy_factor x model_agreement
\* x 0.85.
C20_GoodAccuracyBranch ==
    (Decided /\ out.branch = 6) =>
        LET b  == budget_historical_avg(inp)
            sp == spending_historical_avg(inp)
            h  == historical_avg(inp)
            ml == ml_predicted_amount(inp)
            a  == out.locals.predicted_amount
            high  == sp[1] > 0 /\ RLt(RMul(Num(105), b), RMul(Num(100), sp))
            far   == RLt(RMul(h, Frac(1, 2)), RAbs(RSub(ml, h)))
            sbase == IF RLt(b, RMul(Frac(95, 100), sp)) THEN RMul(Frac(95, 100), sp) ELSE b
        IN  /\ HasPredictions
            /\ RLt(Frac(1, 2), accuracy(inp))
            /\ ~out.raised
            /\ high => a = Weighted(sbase, 70, ml, 30)
            /\ (~high /\ far) => a = Weighted(h, 95, ml, 5)
            /\ (~high /\ ~far) => a = Weighted(h, 60, ml, 40)
            /\ out.locals.confidence =
                  RMul(RMul(RMul(base_confidence(inp), ClaimedAccuracyFactor),
                            model_agreement(inp)), Frac(85, 100))

\* the high-spender case of the good-accuracy branch, the spending-anchored
\* base above the budget average
C20_Witness ==
    /\ Decided
    /\ out.branch = 6
    /\ spending_historical_avg(inp)[1] > 0
    /\ RLt(budget_historical_avg(inp), RMul(Frac(95, 100), spending_historical_avg(inp)))
    /\ out.locals.model_used = "Spending-Informed Ensemble (spending > budget)"
    /\ RLt(Frac(7, 10), accuracy(inp))

-----------------------------------------------------------------------------
(* Further claims about the decision policy, checked under SpecPolicy.     *)

\* C21: the statistical fallback is the branch entered exactly when no model
\* produced a prediction and none of the branches before it fired; the
\* amount is the mean of the planned amounts of the category's periods, the
\* confidence base x 0.7 and the label "Historical Average".
C21_StatisticalFallback ==
    Decided =>
        /\ (~HasPredictions /\ out.branch \notin {1, 2, 4}) => out.branch = 9
        /\ out.branch = 9 =>
              /\ ~HasPredictions
              /\ ~out.raised
              /\ out.locals.predicted_amount = Mean(inp.c.planned)
              /\ out.locals.confidence = RMul(base_confidence(inp), Frac(7, 10))
              /\ out.locals.model_used = "Historical Average"
              /\ out.prediction.ml_model_used = "Historical Average"

\* the fallback taken for a category whose latest planned amount differs
\* from the earlier ones
C21_Witness ==
    /\ Decided
    /\ out.branch = 9
    /\ data_points(inp) >= 3
    /\ inp.c.planned[data_points(inp)] # inp.c.planned[1]
    /\ out.prediction.predicted_amount_cents # out.prediction.historical_avg_cents

\* the outputs the claim keeps: finite, not negative, the call not failed
KeptOutputs ==
    (IF inp.linear.state = "value" /\ inp.linear.v >= 0 THEN <<inp.linear.v>> ELSE <<>>) \o
    (IF inp.forest.state = "value" /\ inp.forest.v >= 0 THEN <<inp.forest.v>> ELSE <<>>)

\* 1 - std / mean of two outputs a and b with a + b > 0, floored at 0.3:
\* the population std is |a - b| / 2, the mean (a + b) / 2
FlooredAgreement(a, b) ==
    RMax(Frac(3, 10), RSub(Num(1), Frac(AbsInt(a - b), a + b)))

\* the mean of the kept outputs, the historical average when none is kept
ClaimedEnsembleMean ==
    IF KeptOutputs = <<>> THEN historical_avg(inp) ELSE Mean(KeptOutputs)

\* C22: an output that is non-finite or negative, or whose predict call
\* fails, is left out for that model only; ml_predicted_amount is the mean
\* of the outputs kept (the historical average when none is kept);
\* model_agreement is 1 - std/mean floored at 0.3 for two outputs with a
\* mean above 0, 0.5 for two outputs with mean 0, 0.7 otherwise, and lies
\* in [0.3, 1.0].
C22_EnsembleAggregation ==
    Decided =>
        LET k == KeptOutputs
        IN  /\ predictions_dict(inp) = k
            /\ ml_predicted_amount(inp) = ClaimedEnsembleMean
            /\ (Len(k) = 2 /\ k[1] + k[2] > 0) =>
                  model_agreement(inp) = FlooredAgreement(k[1], k[2])
            /\ (Len(k) = 2 /\ k[1] + k[2] = 0) => model_agreement(inp) = Frac(1, 2)
            /\ Len(k) < 2 => model_agreement(inp) = Frac(7, 10)
            /\ RLe(Frac(3, 10), model_agreement(inp))
            /\ RLe(model_agreement(inp), Num(1))
            /\ out.branch = 8 =>
                  out.locals.confidence =
                     RMul(RMul(RMul(base_confidence(inp), accuracy_factor(inp)),
                               model_agreement(inp)), Frac(9, 10))

\* a negative linear output left out, the forest's output alone deciding in
\* the general ML branch
C22_Witness ==
    /\ Decided
    /\ inp.linear = Value(-100)
    /\ inp.forest = Value(10000)
    /\ out.branch = 8
    /\ ~out.raised
    /\ ml_predicted_amount(inp) = Num(10000)

\* C22 as stated: with two outputs kept, model_agreement is 1 minus the
\* coefficient of variation floored at 0.3 (two equal outputs vary by 0)
C22_Original ==
    (Decided /\ Len(KeptOutputs) = 2) =>
        LET a == KeptOutputs[1]
            b == KeptOutputs[2]
        IN  model_agreement(inp) =
               (IF a = b THEN Num(1) ELSE FlooredAgreement(a, b))

-----------------------------------------------------------------------------
(* Further claims about the whole call, checked under Spec.                *)

\* C23: build_ml_models returns no models below 5 feature vectors, and when
\* the fit of either regressor fails no model contributes a prediction to
\* any category of the request, the one fitted before the failure included.
C23_TrainerDegrades ==
    "build_ml_models" \in stages =>
        /\ FeatureCount(cats) < 5 => fit = "none"
        /\ fit = "none" =>
              \A i \in 1..idx : cats[i].linear = Absent /\ cats[i].forest = Absent
        /\ fit \in {"linear_failed", "forest_failed"} =>
              \A i \in 1..idx : predictions_dict(cats[i]) = <<>>

-----------------------------------------------------------------------------
(* SpecSeasonal: detect_seasonal_patterns on the feature rows of one       *)
(* category.  A row is the month and the target_amount of a period.        *)

MaxSeasonRows == 4          \* rows of category_data

SeasonMonths  == {1, 3, 7, 11, 12}
SeasonAmounts == {0, 7, 10, 13}

\* the rows in the order of their months: groupby('month') does not depend
\* on the order of the rows
SeasonRows ==
    {rows \in UNION {[1..n -> [month : SeasonMonths, target_amount : SeasonAmounts]] :
                        n \in 1..MaxSeasonRows} :
        \A i \in 1..(Len(rows) - 1) : rows[i].month <= rows[i + 1].month}

\* category_data.groupby('month')['target_amount'].mean()
monthly_amounts(rows) ==
    [mo \in {rows[i].month : i \in 1..Len(rows)} |->
        LET of_month == SelectSeq(rows, LAMBDA r : r.month = mo)
        IN  Mean([i \in 1..Len(of_month) |-> of_month[i].target_amount])]

RECURSIVE RSumOver(_, _)
RSumOver(f, S) ==
    IF S = {} THEN Num(0)
    ELSE LET e == CHOOSE e \in S : TRUE
         IN  RAdd(f[e], RSumOver(f, S \ {e}))

\* monthly_amounts.mean()
monthly_mean(ma) == RDiv(RSumOver(ma, DOMAIN ma), Num(Cardinality(DOMAIN ma)))

\* monthly_amounts.std() squared: the sample variance (ddof = 1), of at
\* least 3 months
monthly_variance(ma) ==
    LET mu == monthly_mean(ma)
        sq == [mo \in DOMAIN ma |-> RMul(RSub(ma[mo], mu), RSub(ma[mo], mu))]
    IN  RDiv(RSumOver(sq, DOMAIN ma), Num(Cardinality(DOMAIN ma) - 1))

\* cv = std / mean if mean > 0 else 0, squared
cv_squared(ma) ==
    LET mu == monthly_mean(ma)
    IN  IF mu[1] > 0 THEN RDiv(monthly_variance(ma), RMul(mu, mu)) ELSE Num(0)

\* monthly_amounts.reindex(range(1, 13), fill_value=monthly_amounts.mean())
amounts_array(ma) ==
    [mo \in 1..12 |-> IF mo \in DOMAIN ma THEN ma[mo] ELSE monthly_mean(ma)]

\* scipy.signal.find_peaks(x, height=h) + 1: the samples higher than both
\* neighbours, the middle of a flat top standing for the whole of it; the
\* first and the last sample are never peaks; a peak is kept when its value
\* is at least h
find_peaks(x, height) ==
    {mid \in 2..11 :
        \E l \in 2..mid : \E r \in mid..11 :
            /\ (l + r) \div 2 = mid
            /\ \A j \in l..r : x[j] = x[l]
            /\ RLt(x[l - 1], x[l])
            /\ RLt(x[r + 1], x[r])
            /\ RLe(height, x[mid])}

\* the label of the peak analysis
peak_label(ma) ==
    LET peak_months == find_peaks(amounts_array(ma), monthly_mean(ma))
    IN  IF peak_months # {}
        THEN IF peak_months \cap {11, 12, 1} # {} THEN "Holiday seasonal"
             ELSE IF peak_months \cap {6, 7, 8} # {} THEN "Summer seasonal"
             ELSE "Irregular seasonal"
        ELSE "Stable"

\* patterns[category_id] for the rows of the category
detect_seasonal_patterns(category_data) ==
    IF Len(category_data) < 4 THEN "Insufficient data"
    ELSE LET ma == monthly_amounts(category_data)
         IN  IF Cardinality(DOMAIN ma) >= 3
             THEN IF RLt(Frac(9, 100), cv_squared(ma))      \* cv > 0.3
                  THEN peak_label(ma)
                  ELSE "Stable"
             ELSE "Limited data"

InitSeasonal ==
    /\ pc = "function"
    /\ \E rows \in SeasonRows :
          fn_in = [fn |-> "detect_seasonal_patterns", category_data |-> rows]
    /\ fn_out = NotReturned
    /\ IdleScaler /\ IdlePolicy /\ IdleRequest /\ IdleFeature /\ IdleFetch

CallDetectSeasonalPatterns ==
    /\ pc = "function" /\ fn_in.fn = "detect_seasonal_patterns"
    /\ Returns(detect_seasonal_patterns(fn_in.category_data))

NextSeasonal == CallDetectSeasonalPatterns

SpecSeasonal == InitSeasonal /\ [][NextSeasonal]_vars

SeasonalLabels ==
    {"Insufficient data", "Limited data", "Stable", "Holiday seasonal",
     "Summer seasonal", "Irregular seasonal"}

\* C24: every category gets one of the six labels: fewer than 4 periods
\* "Insufficient data"; at least 4 periods but fewer than 3 distinct months
\* "Limited data"; otherwise a coefficient of variation below 0.3 "Stable",
\* and one at or above 0.3, exactly 0.3 included, the label of the peak
\* analysis.
C24_SeasonalThresholds ==
    Returned("detect_seasonal_patterns") =>
        LET rows   == fn_in.category_data
            ma     == monthly_amounts(rows)
            months == Cardinality({rows[i].month : i \in 1..Len(rows)})
        IN  /\ fn_out.value \in SeasonalLabels
            /\ Len(rows) < 4 => fn_out.value = "Insufficient data"
            /\ (Len(rows) >= 4 /\ months < 3) => fn_out.value = "Limited data"
            /\ (Len(rows) >= 4 /\ months >= 3) =>
                  /\ RLt(cv_squared(ma), Frac(9, 100)) => fn_out.value = "Stable"
                  /\ RLe(Frac(9, 100), cv_squared(ma)) => fn_out.value = peak_label(ma)

\* month mo is the only month of the 12-month series above the mean
OnlyHighMonth(ma, mo) ==
    LET x == amounts_array(ma)
    IN  /\ RLt(monthly_mean(ma), x[mo])
        /\ \A other \in (1..12) \ {mo} : RLe(x[other], monthly_mean(ma))

\* C25: in the peak analysis a peak in November, December or January gives
\* "Holiday seasonal", otherwise a peak in June, July or August "Summer
\* seasonal", otherwise any other peak "Irregular seasonal", and no peak
\* "Stable"; a series whose only high month is December or January is
\* "Holiday seasonal".
C25_PeakAnalysis ==
    Returned("detect_seasonal_patterns") =>
        LET rows == fn_in.category_data
            ma   == monthly_amounts(rows)
        IN  (/\ Len(rows) >= 4
             /\ Cardinality(DOMAIN ma) >= 3
             /\ RLt(Frac(9, 100), cv_squared(ma))) =>
                /\ fn_out.value = peak_label(ma)
                /\ (OnlyHighMonth(ma, 12) \/ OnlyHighMonth(ma, 1)) =>
                      fn_out.value = "Holiday seasonal"

-----------------------------------------------------------------------------
(* _generate_ml_reasoning.  The text is the list of its fragments; a       *)
(* fragment that prints an amount carries the amount in cents (the text    *)
(* prints it in dollars with two decimals).                                *)

\* the labels the policy gives that contain the phrase
LabelsContaining(phrase) ==
    CASE phrase = "Accurate Budgeter" -> {"Accurate Budgeter (spending  budget)"}
      [] phrase = "Peer-Based"        -> {"Peer-Based Recommendation"}
      [] phrase = "Peer-Informed"     -> {"Peer-Informed Prediction"}
      [] phrase = "Historical Average" ->
            {"Historical Average (only 1 data points)",
             "Historical Average (only 2 data points)",
             "Historical Average (only N data points)",
             "Historical Average (very low accuracy)",
             "Historical Average (stable pattern)",
             "Historical Average",
             "Fallback Historical Average"}
      [] phrase = "limited data"      -> {}
      [] phrase = "stable pattern"    -> {"Historical Average (stable pattern)"}

\* phrase in model_used
In(phrase, model_used) == model_used \in LabelsContaining(phrase)

Says(what) == [says |-> what]
SaysAmount(what, cents) == [says |-> what, cents |-> cents]
SaysLabel(what, label) == [says |-> what, label |-> label]

\* the fragment for the difference to the budget average, when it is above
\* 50 cents
difference_fragment(what, predicted_amount, budget_avg) ==
    LET difference == RSub(predicted_amount, budget_avg)
    IN  IF RLt(Num(50), RAbs(difference))
        THEN <<SaysAmount(what, difference)>>
        ELSE <<>>

\* spending_clusters.get(category_id, "Unknown")
SpendingClusters == {"Unknown", "Conservative", "Balanced", "Volatile"}

\* seasonal_patterns.get(category_id, "Unknown")
SeasonalPatterns == {"Unknown"} \cup SeasonalLabels

generate_ml_reasoning(data, predicted_amount, model_used, cluster, seasonal_pattern, budget_avg, spending_avg) ==
    (IF In("Accurate Budgeter", model_used)
     THEN <<SaysAmount("Maintaining budget", budget_avg)>> \o
          difference_fragment("adjustment", predicted_amount, budget_avg)
     ELSE IF In("Peer-Based", model_used) \/ In("Peer-Informed", model_used)
     THEN <<SaysAmount("Based on similar users", predicted_amount)>> \o
          (IF budget_avg[1] > 0
           THEN difference_fragment("peers suggest vs your history",
                                    predicted_amount, budget_avg)
           ELSE <<>>)
     ELSE IF In("Historical Average", model_used)
     THEN <<SaysAmount("Based on budget average", budget_avg)>>
     ELSE <<Says("Conservative ML prediction"),
            SaysAmount("budget average", budget_avg)>> \o
          difference_fragment("ML suggests adjustment",
                              predicted_amount, budget_avg))
    \o
    (IF spending_avg[1] > 0
     THEN <<SaysAmount("spending avg", spending_avg)>>
     ELSE <<>>)
    \o
    (IF In("Accurate Budgeter", model_used) THEN <<Says("consistent spending pattern")>>
     ELSE IF cluster # "Unknown" THEN <<SaysLabel("spending pattern", cluster)>>
     ELSE <<>>)
    \o
    (IF data.historical_count < 3 THEN <<Says("(limited historical data)")>> ELSE <<>>)

\* reasoning=self._generate_ml_reasoning(...) of the prediction decided
reasoning(cluster, seasonal_pattern) ==
    generate_ml_reasoning(latest_data(inp), out.locals.predicted_amount,
                          out.locals.model_used, cluster, seasonal_pattern,
                          budget_historical_avg(inp), spending_historical_avg(inp))

Fragments(text) == {text[i] : i \in 1..Len(text)}

\* the fragments that print the budget average
BudgetBaseline(avg) ==
    {SaysAmount(w, avg) : w \in {"Maintaining budget", "Based on budget average",
                                 "budget average"}}

\* C27: the reasoning of every prediction cites the budget baseline; it
\* cites the spending baseline whenever the spending average is above 0,
\* the behaviour cluster and the seasonal label whenever they are known,
\* and the low-data caveat exactly when historical_count < 3.
C27_ReasoningCites ==
    (Decided /\ ~out.raised) =>
        \A cluster \in SpendingClusters : \A seasonal_pattern \in SeasonalPatterns :
            LET said == Fragments(reasoning(cluster, seasonal_pattern))
            IN  /\ said \cap BudgetBaseline(budget_historical_avg(inp)) # {}
                /\ spending_historical_avg(inp)[1] > 0 =>
                      SaysAmount("spending avg", spending_historical_avg(inp)) \in said
                /\ cluster # "Unknown" => SaysLabel("spending pattern", cluster) \in said
                /\ seasonal_pattern # "Unknown" =>
                      \E f \in said : "label" \in DOMAIN f /\ f.label = seasonal_pattern
                /\ Says("(limited historical data)") \in said
                      <=> latest_data(inp).historical_count < 3

-----------------------------------------------------------------------------
(* Further claims about the decision policy, checked under SpecPolicy.     *)

\* C28: a category whose budget average is 0 while its spending average is
\* above 0 and model predictions exist is decided by one of the branches
\* without raising: the ratio spending / budget is never taken with a budget
\* average of 0.
C28_NoDivisionByZeroBudget ==
    (/\ Decided
     /\ budget_historical_avg(inp)[1] = 0
     /\ spending_historical_avg(inp)[1] > 0
     /\ HasPredictions) =>
        /\ out.branch \in 1..9
        /\ ~out.raised

\* C29: whenever the label of a prediction contains "Historical Average",
\* predicted_amount_cents equals the historical_avg_cents of the same
\* prediction, the mean of the planned amounts of the periods strictly
\* before the latest one.
C29_HistoricalAverageLabel ==
    (Decided /\ ~out.raised /\ In("Historical Average", out.prediction.ml_model_used)) =>
        /\ out.prediction.predicted_amount_cents = out.prediction.historical_avg_cents
        /\ data_points(inp) >= 2 =>
              out.prediction.historical_avg_cents =
                 Trunc(Mean(SubSeq(inp.c.planned, 1, data_points(inp) - 1)))

\* C30: with planned amounts, spending amounts and peer budgets that are
\* not negative, the amount of every prediction is not negative, whatever
\* the branch and whatever the models give.
C30_NonNegativeAmount ==
    (Decided /\ ~out.raised) =>
        /\ ~RLt(out.locals.predicted_amount, Num(0))
        /\ out.prediction.predicted_amount_cents >= 0

\* a negative output of the linear model left out of an ML blend
C30_Witness ==
    /\ Decided
    /\ ~out.raised
    /\ inp.linear = Value(-100)
    /\ inp.forest = Value(100)
    /\ out.branch \in {5, 6}
    /\ RLt(Num(0), out.locals.predicted_amount)

====
